---- MODULE Spec2Model ----
(***************************************************************************)
(* Ticket pipeline of sitedoc-backend: one issue driven through the kanban *)
(* columns by customer requests, agent runners (Celery jobs), agent        *)
(* callbacks, the PM / tech-lead jobs, the admin endpoint and the stall    *)
(* sweep.  The store (issue row, transition log, chat), the job queue, the *)
(* Redis agent locks and the spawned agent sessions are the shared state;  *)
(* every multi-step operation runs in a process slot.                      *)
(***************************************************************************)
EXTENDS Integers, Sequences, FiniteSets, TLC

(* ------------------------------ bounds --------------------------------- *)

\* the newest rows of ticket_transitions kept (older rows are never read)
MaxLog == 1
\* most pending jobs of one task name on the backend queue
MaxQueue == 1
\* the newest chat_messages rows kept
MaxChat == 1
\* most live spawned agent sessions of one role
MaxSessions == 1
\* largest dev_fail_count explored
MaxFails == 3
\* the newest agent_actions rows kept
MaxActions == 1

(* --------------------------- program constants ------------------------- *)

TECH_LEAD_FAIL_THRESHOLD == 3

Columns ==
    {"triage", "ready_for_uat_approval", "todo", "in_progress", "ready_for_qa",
     "in_qa", "ready_for_uat", "done", "dismissed"}

Statuses == {"open", "in_progress", "pending_approval", "resolved", "dismissed"}

PIPELINE_ORDER ==
    <<"triage", "ready_for_uat_approval", "todo", "in_progress",
      "ready_for_qa", "in_qa", "ready_for_uat", "done", "dismissed">>

\* an index that knows no column
_col_idx_unknown(val) == -1

\* PIPELINE_ORDER.index(val), -1 when val is not a column
_col_idx(val) ==
    IF \E i \in 1..Len(PIPELINE_ORDER) : PIPELINE_ORDER[i] = val
    THEN (CHOOSE i \in 1..Len(PIPELINE_ORDER) : PIPELINE_ORDER[i] = val) - 1
    ELSE -1

\* a matrix that lets the customer move a ticket anywhere
CUSTOMER_TRANSITIONS_open(col) == Columns

CUSTOMER_TRANSITIONS(col) ==
    CASE col = "ready_for_uat_approval" -> {"todo", "dismissed"}
      [] col = "ready_for_uat" -> {"done", "todo"}
      [] OTHER -> {}

UAT_FAIL_COLUMNS == {"ready_for_uat"}

\* base.py KANBAN_TO_STATUS and pipeline.py _kanban_to_legacy_status agree
_kanban_to_legacy_status(col) ==
    CASE col \in {"triage", "ready_for_uat_approval", "todo"} -> "open"
      [] col \in {"in_progress", "ready_for_qa", "in_qa"} -> "in_progress"
      [] col = "ready_for_uat" -> "pending_approval"
      [] col = "done" -> "resolved"
      [] col = "dismissed" -> "dismissed"

Roles == {"dev", "qa"}

\* the column a runner expects at pre-flight, and the one it works in
EntryCol(role) == IF role = "dev" THEN "todo" ELSE "ready_for_qa"
WorkCol(role) == IF role = "dev" THEN "in_progress" ELSE "in_qa"

\* the callback bodies the dev and QA prompts hand to the spawned agent
CallbackBodies(role) ==
    IF role = "dev"
    THEN {[status |-> "success", to |-> "ready_for_qa"],
          [status |-> "failure", to |-> "none"]}
    ELSE {[status |-> "success", to |-> "ready_for_uat"],
          [status |-> "failure", to |-> "todo"]}

\* transition_to is a free string: the bodies of the prompts, and one whose
\* transition_to names no column
AgentResultBodies(role) ==
    CallbackBodies(role) \cup {[status |-> "success", to |-> "ready_for_review"]}

\* the columns the PM prompt offers for a ticket_action: all of them
PMColumns == Columns

Procs == {"p1", "p2"}

(* ------------------------------- state --------------------------------- *)

VARIABLES
    issue,        \* the issues row
    transitions,  \* ticket_transitions rows of the issue, in creation order
    chat,         \* chat_messages rows of the issue, in creation order
    actions,      \* agent_actions rows of the issue, in creation order
    queue,        \* pending Celery jobs on the backend queue: task -> number
    locks,        \* roles r whose Redis key agent_lock:r:<issue> exists
    whole,        \* whether transitions still holds every row ever written
    young,        \* the timers (lock keys, stall_check_at) set after the
                  \* issue's last activity (newest transition or chat row)
    redis_up,     \* whether the Redis server of the locks answers
    sessions,     \* live spawned agent sessions: role -> number
    procs         \* the operations in flight, one per slot

vars == <<issue, transitions, whole, chat, actions, queue, locks, young, redis_up,
          sessions, procs>>

Tasks == {"dev", "qa", "tech_lead"}

\* the attributes of the issue row a request's session has changed and will
\* write at commit ("keep" / -1: unchanged, not part of the UPDATE)
NoWrites ==
    [kanban_column |-> "keep", status |-> "keep", dev_fail_count |-> -1,
     resolved_at |-> "keep", row |-> FALSE]

IdleProc ==
    [op |-> "idle", pc |-> "idle", role |-> "none", status |-> "none",
     to |-> "none", from |-> "none", n |-> 0, wrote |-> 0, posted |-> 0,
     ahead |-> FALSE, req |-> "none", age |-> 0, w |-> NoWrites]

Init ==
    /\ issue = [kanban_column |-> "triage", status |-> "open",
                dev_fail_count |-> 0, resolved_at |-> "null",
                stall_check_at |-> "null"]
    /\ transitions = <<>>
    /\ whole = TRUE
    /\ chat = <<>>
    /\ actions = <<>>
    /\ queue = [t \in Tasks |-> 0]
    /\ locks = {}
    /\ young = {}
    /\ redis_up = TRUE
    /\ sessions = [r \in Roles |-> 0]
    /\ procs = [p \in Procs |-> IdleProc]

\* the part of the state space explored: every action ends inside it
Bounded ==
    /\ \A t \in Tasks : queue[t] <= MaxQueue
    /\ \A r \in Roles : sessions[r] <= MaxSessions
    /\ issue.dev_fail_count <= MaxFails

(* -------------------------- store operations --------------------------- *)

Enqueue(q, task) == [q EXCEPT ![task] = @ + 1]

\* the logs are append-only; the model keeps their newest rows, and the whole
\* of ticket_transitions for as long as it is a run of the pipeline's chain
Newest(log, max) ==
    IF Len(log) > max THEN SubSeq(log, Len(log) - max + 1, Len(log)) ELSE log

\* a chat_messages row: its agent_role, and whether its content is the
\* message of an agent-result callback or a notice of the backend
ChatMessage(agent_role, content) == [agent_role |-> agent_role, content |-> content]

\* base.py post_chat_message
post_chat_message(c, content, agent_role) ==
    Newest(Append(c, ChatMessage(agent_role, content)), MaxChat)

AddRow(log, row) == Newest(Append(log, row), MaxLog)

\* an agent_actions row
AgentAction(agent_role, status) == [agent_role |-> agent_role, status |-> status]

Row(from_col, to_col, actor_type) ==
    [from_col |-> from_col, to_col |-> to_col, actor_type |-> actor_type]

\* the columns of the pipeline in the order a ticket passes them
PipelineChain ==
    <<"triage", "ready_for_uat_approval", "todo", "in_progress", "ready_for_qa",
      "in_qa", "ready_for_uat", "done">>

\* the log is the first rows of one pass through the pipeline
IsChain(log) ==
    /\ Len(log) < Len(PipelineChain)
    /\ \A k \in 1..Len(log) :
          /\ log[k].from_col = PipelineChain[k]
          /\ log[k].to_col = PipelineChain[k + 1]

\* the store as one value, for the operations that change several tables
Store ==
    [issue |-> issue, transitions |-> transitions, queue |-> queue, whole |-> whole]

\* the rows kept of the log of s after one more row
KeepRow(s, row) ==
    IF s.whole /\ IsChain(Append(s.transitions, row))
    THEN Append(s.transitions, row)
    ELSE AddRow(s.transitions, row)

\* whether those rows are still every row written
IsWhole(s, row) ==
    s.whole /\ (IsChain(Append(s.transitions, row)) \/ Len(s.transitions) < MaxLog)

\* a direct transition that counts every return to todo as a failure
transition_issue_direct_counting(s, to_col, actor_type) ==
    LET old_col == s.issue.kanban_column
        i1 == [s.issue EXCEPT
                 !.kanban_column = to_col,
                 !.status = _kanban_to_legacy_status(to_col),
                 !.stall_check_at = IF to_col = "in_progress" THEN "due" ELSE @,
                 !.resolved_at = IF to_col = "done" THEN "set" ELSE @,
                 !.dev_fail_count = IF to_col = "todo" THEN @ + 1 ELSE @]
        q1 == IF to_col = "todo" THEN Enqueue(s.queue, "dev") ELSE s.queue
        q2 == IF to_col = "ready_for_qa" THEN Enqueue(q1, "qa") ELSE q1
    IN  [issue |-> i1,
         transitions |-> KeepRow(s, Row(old_col, to_col, actor_type)),
         whole |-> IsWhole(s, Row(old_col, to_col, actor_type)),
         queue |-> q2]

\* a direct transition that sends no task
transition_issue_direct_quiet(s, to_col, actor_type) ==
    LET old_col == s.issue.kanban_column
        i1 == [s.issue EXCEPT
                 !.kanban_column = to_col,
                 !.status = _kanban_to_legacy_status(to_col),
                 !.stall_check_at = IF to_col = "in_progress" THEN "due" ELSE @,
                 !.resolved_at = IF to_col = "done" THEN "set" ELSE @,
                 !.dev_fail_count =
                     IF to_col = "todo" /\ old_col = "in_qa" THEN @ + 1 ELSE @]
    IN  [issue |-> i1,
         transitions |-> KeepRow(s, Row(old_col, to_col, actor_type)),
         whole |-> IsWhole(s, Row(old_col, to_col, actor_type)),
         queue |-> s.queue]

\* base.py transition_issue_direct: one sync transaction, then the enqueues
transition_issue_direct(s, to_col, actor_type) ==
    LET old_col == s.issue.kanban_column
        i1 == [s.issue EXCEPT
                 !.kanban_column = to_col,
                 !.status = _kanban_to_legacy_status(to_col),
                 !.stall_check_at = IF to_col = "in_progress" THEN "due" ELSE @,
                 !.resolved_at = IF to_col = "done" THEN "set" ELSE @,
                 !.dev_fail_count =
                     IF to_col = "todo" /\ old_col = "in_qa" THEN @ + 1 ELSE @]
        q1 == IF to_col = "todo" THEN Enqueue(s.queue, "dev") ELSE s.queue
        q2 == IF to_col = "ready_for_qa" THEN Enqueue(q1, "qa") ELSE q1
    IN  [issue |-> i1,
         transitions |-> KeepRow(s, Row(old_col, to_col, actor_type)),
         whole |-> IsWhole(s, Row(old_col, to_col, actor_type)),
         queue |-> q2]

\* pipeline.py transition_issue_internal: the endpoint the Celery tasks call
\* through base.py transition_issue
transition_issue_internal(s, to_col, actor_type) ==
    LET old_col == s.issue.kanban_column
        qa_fail == to_col = "todo" /\ old_col = "in_qa"
        fails == IF qa_fail THEN s.issue.dev_fail_count + 1
                 ELSE s.issue.dev_fail_count
        i1 == [s.issue EXCEPT
                 !.kanban_column = to_col,
                 !.status = _kanban_to_legacy_status(to_col),
                 !.stall_check_at = IF to_col = "in_progress" THEN "due" ELSE @,
                 !.resolved_at = IF to_col = "done" THEN "set" ELSE @,
                 !.dev_fail_count = fails]
        q0 == IF qa_fail /\ fails >= TECH_LEAD_FAIL_THRESHOLD
              THEN Enqueue(s.queue, "tech_lead") ELSE s.queue
        q1 == IF to_col = "todo" THEN Enqueue(q0, "dev") ELSE q0
        q2 == IF to_col = "ready_for_qa" THEN Enqueue(q1, "qa") ELSE q1
    IN  [issue |-> i1,
         transitions |-> KeepRow(s, Row(old_col, to_col, actor_type)),
         whole |-> IsWhole(s, Row(old_col, to_col, actor_type)),
         queue |-> q2]

\* admin.py admin_transition_issue
admin_transition_issue(s, to_col) ==
    [issue |-> [s.issue EXCEPT !.kanban_column = to_col],
     transitions |-> KeepRow(s, Row(s.issue.kanban_column, to_col, "system")),
     whole |-> IsWhole(s, Row(s.issue.kanban_column, to_col, "system")),
     queue |-> s.queue]

SetStore(s) ==
    /\ issue' = s.issue
    /\ transitions' = s.transitions
    /\ whole' = s.whole
    /\ queue' = s.queue

SetProc(p, v) == procs' = [procs EXCEPT ![p] = v]

Idle(p) == procs[p].op = "idle"

(* ------------------- dev_agent.run / qa_agent.run ---------------------- *)

\* a runner job holds its slot from the lock attempt until it returns
RunnerActive(role) ==
    \E p \in Procs : procs[p].op = "runner" /\ procs[p].role = role

\* a try-acquire that sets the key and reports it as found
try_acquire_agent_lock_refused(held, agent_role, up) ==
    [acquired |-> ~up, locks |-> IF up THEN held \cup {agent_role} ELSE held]

\* a try-acquire that never finds the key
try_acquire_agent_lock_blind(held, agent_role, up) ==
    [acquired |-> TRUE, locks |-> held \cup {agent_role}]

\* base.py try_acquire_agent_lock: SET NX EX when Redis answers; when it does
\* not, the exception is logged and the caller is told to proceed
try_acquire_agent_lock(held, agent_role, up) ==
    IF up
    THEN [acquired |-> agent_role \notin held, locks |-> held \cup {agent_role}]
    ELSE [acquired |-> TRUE, locks |-> held]

\* a release that deletes nothing
release_agent_lock_kept(held, agent_role, up) == held

\* base.py release_agent_lock: DEL, an exception is logged and swallowed
release_agent_lock(held, agent_role, up) ==
    IF up THEN held \ {agent_role} ELSE held

\* the job is taken off the queue and tries the lock; a duplicate task is
\* about to return
RunnerStart(p, role) ==
    /\ Idle(p)
    /\ queue[role] > 0
    /\ queue' = [queue EXCEPT ![role] = @ - 1]
    /\ LET r == try_acquire_agent_lock(locks, role, redis_up)
       IN  /\ locks' = r.locks
           /\ young' = IF r.acquired /\ redis_up THEN young \cup {role} ELSE young
           /\ SetProc(p, [IdleProc EXCEPT
                            !.op = "runner", !.role = role,
                            !.pc = IF r.acquired THEN "preflight" ELSE "duplicate"])
    /\ UNCHANGED <<issue, transitions, whole, chat, actions, redis_up, sessions>>

\* lock already held: the duplicate task returns
RunnerDuplicate(p) ==
    /\ procs[p].op = "runner" /\ procs[p].pc = "duplicate"
    /\ SetProc(p, IdleProc)
    /\ UNCHANGED <<issue, transitions, whole, chat, actions, queue, locks, young, redis_up,
                   sessions>>

\* pre-flight: dev_agent releases the lock on abort, qa_agent returns with it
RunnerPreflight(p) ==
    /\ procs[p].op = "runner" /\ procs[p].pc = "preflight"
    /\ IF issue.kanban_column # EntryCol(procs[p].role)
       THEN /\ SetProc(p, IdleProc)
            /\ locks' = IF procs[p].role = "dev"
                        THEN release_agent_lock(locks, "dev", redis_up)
                        ELSE locks
       ELSE /\ SetProc(p, [procs[p] EXCEPT !.pc = "enter"])
            /\ UNCHANGED locks
    /\ young' = young \ (locks \ locks')
    /\ UNCHANGED <<issue, transitions, whole, chat, actions, queue, redis_up, sessions>>

\* step 1: transition_issue(to work column) through the internal endpoint;
\* when the call raises, the inner except logs a warning and the run goes on
RunnerEnter(p, ok) ==
    /\ procs[p].op = "runner" /\ procs[p].pc = "enter"
    /\ IF ok
       THEN SetStore(transition_issue_internal(Store, WorkCol(procs[p].role),
                                               procs[p].role \o "_agent"))
       ELSE UNCHANGED <<issue, transitions, whole, queue>>
    /\ SetProc(p, [procs[p] EXCEPT !.pc = "starting"])
    /\ young' = IF ok THEN {} ELSE young
    /\ UNCHANGED <<chat, actions, locks, redis_up, sessions>>
    /\ Bounded'

\* step 2: the starting chat message
RunnerStarting(p) ==
    /\ procs[p].op = "runner" /\ procs[p].pc = "starting"
    /\ chat' = post_chat_message(chat, "notice", procs[p].role)
    /\ SetProc(p, [procs[p] EXCEPT !.pc = "spawn"])
    /\ young' = {}
    /\ UNCHANGED <<issue, transitions, whole, actions, queue, locks, redis_up, sessions>>

\* steps 3-4: spawn_agent returns a session or raises
RunnerSpawn(p, ok) ==
    /\ procs[p].op = "runner" /\ procs[p].pc = "spawn"
    /\ IF ok
       THEN /\ sessions' = [sessions EXCEPT ![procs[p].role] = @ + 1]
            /\ SetProc(p, [procs[p] EXCEPT !.pc = "running"])
       ELSE /\ UNCHANGED sessions
            /\ SetProc(p, [procs[p] EXCEPT !.pc = "failed"])
    /\ UNCHANGED <<issue, transitions, whole, chat, actions, queue, locks, young, redis_up>>
    /\ Bounded'

\* step 5: the running chat message; the task returns, the lock stays
RunnerRunning(p) ==
    /\ procs[p].op = "runner" /\ procs[p].pc = "running"
    /\ chat' = post_chat_message(chat, "notice", procs[p].role)
    /\ SetProc(p, IdleProc)
    /\ young' = {}
    /\ UNCHANGED <<issue, transitions, whole, actions, queue, locks, redis_up, sessions>>

\* except: dev_agent releases the lock first, qa_agent never does
RunnerFailed(p) ==
    /\ procs[p].op = "runner" /\ procs[p].pc = "failed"
    /\ locks' = IF procs[p].role = "dev"
                THEN release_agent_lock(locks, "dev", redis_up)
                ELSE locks
    /\ young' = young \ (locks \ locks')
    /\ SetProc(p, [procs[p] EXCEPT !.pc = "revert"])
    /\ UNCHANGED <<issue, transitions, whole, chat, actions, queue, redis_up, sessions>>

\* except: transition_issue back to the entry column
RunnerRevert(p) ==
    /\ procs[p].op = "runner" /\ procs[p].pc = "revert"
    /\ SetStore(transition_issue_internal(Store, EntryCol(procs[p].role),
                                          procs[p].role \o "_agent"))
    /\ SetProc(p, [procs[p] EXCEPT !.pc = "record"])
    /\ young' = {}
    /\ UNCHANGED <<chat, actions, locks, redis_up, sessions>>
    /\ Bounded'

\* except: the failed AgentAction and the error chat message
RunnerRecord(p) ==
    /\ procs[p].op = "runner" /\ procs[p].pc = "record"
    /\ actions' = Newest(Append(actions, AgentAction(procs[p].role, "failed")),
                          MaxActions)
    /\ chat' = post_chat_message(chat, "notice", procs[p].role)
    /\ SetProc(p, IdleProc)
    /\ young' = {}
    /\ UNCHANGED <<issue, transitions, whole, queue, locks, redis_up, sessions>>

(* ---------------- internal.py agent_result (the callback) -------------- *)

CallbackProc(role, body, n) ==
    [IdleProc EXCEPT !.op = "callback", !.pc = "guard", !.role = role,
                     !.status = body.status, !.to = body.to, !.n = n]

\* the token of the deployment (env AGENT_INTERNAL_TOKEN)
AGENT_INTERNAL_TOKEN == "tkn"

\* Authorization headers a request may carry ("": no header)
Headers == {"", "Bearer tkn", "Bearer tkn ", "bearer tkn", "Bearer tk", "tkn"}

\* a check that accepts every header that is present
_verify_token_any(authorization) ==
    IF authorization = "" THEN 401 ELSE 200

\* _verify_token: the status it raises, 200 when it returns
_verify_token(authorization) ==
    IF AGENT_INTERNAL_TOKEN = "" THEN 503
    ELSE IF authorization = "" \/ authorization # "Bearer " \o AGENT_INTERNAL_TOKEN
         THEN 401
         ELSE 200

\* a spawned session posts its result with the header authorization: the
\* request is refused by _verify_token or goes on to the guard
AgentResultArrives(p, role, body, authorization) ==
    /\ Idle(p)
    /\ sessions[role] > 0
    /\ body \in AgentResultBodies(role)
    /\ IF _verify_token(authorization) = 200
       THEN /\ sessions' = [sessions EXCEPT ![role] = @ - 1]
            /\ SetProc(p, CallbackProc(role, body, 1))
       ELSE /\ UNCHANGED sessions
            /\ SetProc(p, [CallbackProc(role, body, 1) EXCEPT !.pc = "denied"])
    /\ UNCHANGED <<issue, transitions, whole, chat, actions, queue, locks, young, redis_up>>

\* the request arrives with the header the prompt gives the agent
CallbackBegin(p, role, body) ==
    AgentResultArrives(p, role, body, "Bearer " \o AGENT_INTERNAL_TOKEN)

\* the same request arrives again while its first delivery is being handled
CallbackDuplicate(p, q) ==
    /\ Idle(q)
    /\ procs[p].op = "callback" /\ procs[p].n = 1
    /\ procs[p].pc # "denied"
    /\ procs' = [procs EXCEPT
                   ![p] = [@ EXCEPT !.n = 2],
                   ![q] = CallbackProc(procs[p].role,
                              [status |-> procs[p].status, to |-> procs[p].to], 2)]
    /\ UNCHANGED <<issue, transitions, whole, chat, actions, queue, locks, young, redis_up, sessions>>

\* a guard that lets every callback through
never_at_or_past_target(col, to) == FALSE

\* the idempotency guard: skip when the target is the same column or earlier
already_at_or_past_target(col, to) ==
    LET current_idx == _col_idx(col)
        target_idx == _col_idx(to)
    IN  target_idx >= 0 /\ current_idx >= target_idx

\* the guard's read; from keeps the column the first delivery found
CallbackGuard(p) ==
    /\ procs[p].op = "callback" /\ procs[p].pc = "guard"
    /\ LET seen == [procs[p] EXCEPT
                        !.from = IF @ = "none" THEN issue.kanban_column ELSE @]
       IN  IF procs[p].to # "none"
              /\ already_at_or_past_target(issue.kanban_column, procs[p].to)
           THEN SetProc(p, [seen EXCEPT !.pc = "returned"])
           ELSE SetProc(p, [seen EXCEPT !.pc = "chat"])
    /\ UNCHANGED <<issue, transitions, whole, chat, actions, queue, locks, young, redis_up, sessions>>

\* 1. post_chat_message, its own transaction
CallbackChat(p) ==
    /\ procs[p].op = "callback" /\ procs[p].pc = "chat"
    /\ chat' = post_chat_message(chat, "agent_result", procs[p].role)
    /\ SetProc(p, [procs[p] EXCEPT
                     !.pc = IF procs[p].to = "none" THEN "release" ELSE "transition",
                     !.posted = @ + 1])
    /\ young' = {}
    /\ UNCHANGED <<issue, transitions, whole, actions, queue, locks, redis_up, sessions>>

\* 2. transition_issue_direct; KanbanColumn(to_col) raises for a string that
\* names no column, and the handler answers with a warning at once
CallbackTransition(p) ==
    /\ procs[p].op = "callback" /\ procs[p].pc = "transition"
    /\ IF procs[p].to \in Columns
       THEN /\ SetStore(transition_issue_direct(Store, procs[p].to,
                                                procs[p].role \o "_agent"))
            /\ SetProc(p, [procs[p] EXCEPT !.pc = "release", !.wrote = @ + 1])
       ELSE /\ SetProc(p, [procs[p] EXCEPT !.pc = "returned"])
            /\ UNCHANGED <<issue, transitions, whole, queue>>
    /\ young' = IF procs[p].to \in Columns THEN {} ELSE young
    /\ UNCHANGED <<chat, actions, locks, redis_up, sessions>>
    /\ Bounded'

\* release_agent_lock, then the response
CallbackRelease(p) ==
    /\ procs[p].op = "callback" /\ procs[p].pc = "release"
    /\ locks' = release_agent_lock(locks, procs[p].role, redis_up)
    /\ young' = young \ (locks \ locks')
    /\ SetProc(p, [procs[p] EXCEPT !.pc = "returned"])
    /\ UNCHANGED <<issue, transitions, whole, chat, actions, queue, redis_up, sessions>>

\* the agent sends the same body once more after the response
CallbackRedeliver(p) ==
    /\ procs[p].op = "callback" /\ procs[p].pc = "returned" /\ procs[p].n = 1
    /\ SetProc(p, [procs[p] EXCEPT !.pc = "guard", !.n = 2])
    /\ UNCHANGED <<issue, transitions, whole, chat, actions, queue, locks, young, redis_up, sessions>>

CallbackDone(p) ==
    /\ procs[p].op = "callback" /\ procs[p].pc \in {"returned", "denied"}
    /\ SetProc(p, IdleProc)
    /\ UNCHANGED <<issue, transitions, whole, chat, actions, queue, locks, young, redis_up, sessions>>

(* --------------------- customer requests (HTTP) ------------------------ *)

\* what the ORM writes at commit: the attributes whose value changed
Changed(old, new, keep) == IF new = old THEN keep ELSE new

\* an UPDATE that leaves resolved_at out
ApplyWrites_unresolved(i, w) ==
    [i EXCEPT
       !.kanban_column = IF w.kanban_column = "keep" THEN @ ELSE w.kanban_column,
       !.status = IF w.status = "keep" THEN @ ELSE w.status,
       !.dev_fail_count = IF w.dev_fail_count = -1 THEN @ ELSE w.dev_fail_count]

ApplyWrites(i, w) ==
    [i EXCEPT
       !.kanban_column = IF w.kanban_column = "keep" THEN @ ELSE w.kanban_column,
       !.status = IF w.status = "keep" THEN @ ELSE w.status,
       !.dev_fail_count = IF w.dev_fail_count = -1 THEN @ ELSE w.dev_fail_count,
       !.resolved_at = IF w.resolved_at = "keep" THEN @ ELSE w.resolved_at]

CustomerProc(req, from_col, to_col, w) ==
    [IdleProc EXCEPT !.op = "customer", !.pc = "commit", !.req = req,
                     !.from = from_col, !.to = to_col, !.w = w]

\* pipeline.py transition_issue, from the check to the flush: what an accepted
\* request changes on the loaded row, and the queue after the tasks it sends
TransitionOutcome(i, q, target_col) ==
    LET current_col == i.kanban_column
        uat_fail == current_col \in UAT_FAIL_COLUMNS /\ target_col = "todo"
        fails == i.dev_fail_count + 1
        q0 == IF uat_fail /\ fails >= 3 THEN Enqueue(q, "tech_lead") ELSE q
        q1 == IF target_col = "todo" THEN Enqueue(q0, "dev") ELSE q0
    IN  [queue |-> q1,
         to |-> target_col,
         w |-> [kanban_column |-> Changed(current_col, target_col, "keep"),
                status |-> Changed(i.status,
                                   _kanban_to_legacy_status(target_col), "keep"),
                dev_fail_count |-> IF uat_fail THEN fails ELSE -1,
                resolved_at |-> IF target_col = "done" THEN "set" ELSE "keep",
                row |-> TRUE]]

\* pipeline.py transition_issue, up to the flush: load, check, change the
\* loaded row, send the tasks
TransitionRequest(p, target_col) ==
    LET current_col == issue.kanban_column
        r == TransitionOutcome(issue, queue, target_col)
    IN  /\ Idle(p)
        /\ IF target_col # "dismissed"
              /\ target_col \notin CUSTOMER_TRANSITIONS(current_col)
           THEN UNCHANGED <<queue, procs>>
           ELSE /\ queue' = r.queue
                /\ SetProc(p, CustomerProc("transition", current_col, r.to, r.w))
        /\ UNCHANGED <<issue, transitions, whole, chat, actions, locks, young, redis_up, sessions>>
        /\ Bounded'

\* issues.py approve_and_start
ApproveAndStartRequest(p) ==
    /\ Idle(p)
    /\ IF issue.kanban_column # "ready_for_uat_approval"
       THEN UNCHANGED <<queue, procs>>
       ELSE /\ queue' = Enqueue(queue, "dev")
            /\ SetProc(p, CustomerProc("approve_and_start", issue.kanban_column,
                 "todo", [NoWrites EXCEPT !.kanban_column = "todo", !.row = TRUE]))
    /\ UNCHANGED <<issue, transitions, whole, chat, actions, locks, young, redis_up, sessions>>
    /\ Bounded'

\* issues.py uat_reject, after the gate: what the request changes on the
\* loaded row, and the queue after the task it sends
UatRejectOutcome(i, q) ==
    LET new_count == i.dev_fail_count + 1
        to_col == IF new_count >= TECH_LEAD_FAIL_THRESHOLD THEN "triage" ELSE "todo"
    IN  [queue |-> Enqueue(q, IF to_col = "triage" THEN "tech_lead" ELSE "dev"),
         to |-> to_col,
         w |-> [NoWrites EXCEPT !.kanban_column = to_col,
                                !.dev_fail_count = new_count,
                                !.row = TRUE]]

\* issues.py uat_reject
UatRejectRequest(p) ==
    LET r == UatRejectOutcome(issue, queue)
    IN  /\ Idle(p)
        /\ IF issue.kanban_column # "ready_for_uat"
           THEN UNCHANGED <<queue, procs>>
           ELSE /\ queue' = r.queue
                /\ SetProc(p, CustomerProc("uat_reject", issue.kanban_column, r.to,
                                           r.w))
        /\ UNCHANGED <<issue, transitions, whole, chat, actions, locks, young, redis_up, sessions>>
        /\ Bounded'

\* issues.py update_status
UpdateStatusRequest(p, status) ==
    LET col == issue.kanban_column
        new_col == CASE status = "resolved" /\ col \notin {"done", "dismissed"} -> "done"
                     [] status = "dismissed" /\ col # "dismissed" -> "dismissed"
                     [] OTHER -> "keep"
    IN  /\ Idle(p)
        /\ SetProc(p, CustomerProc("update_status", col, new_col,
             [kanban_column |-> new_col,
              status |-> Changed(issue.status, status, "keep"),
              dev_fail_count |-> -1,
              resolved_at |-> IF status = "resolved" THEN "set" ELSE "keep",
              row |-> FALSE]))
        /\ UNCHANGED <<issue, transitions, whole, chat, actions, queue, locks, young, redis_up, sessions>>

\* issues.py approve_fix (legacy): no write, one dev job
ApproveRequest ==
    /\ issue.status = "pending_approval"
    /\ queue' = Enqueue(queue, "dev")
    /\ UNCHANGED <<issue, transitions, whole, chat, actions, locks, young, redis_up, sessions, procs>>
    /\ Bounded'

\* the commit of the request's session: the UPDATE and the transition row
CustomerCommit(p) ==
    /\ procs[p].op = "customer" /\ procs[p].pc = "commit"
    /\ issue' = ApplyWrites(issue, procs[p].w)
    /\ transitions' = IF procs[p].w.row
                      THEN KeepRow(Store, Row(procs[p].from, procs[p].to, "customer"))
                      ELSE transitions
    /\ whole' = IF procs[p].w.row
                THEN IsWhole(Store, Row(procs[p].from, procs[p].to, "customer"))
                ELSE whole
    /\ SetProc(p, IdleProc)
    /\ young' = IF procs[p].w.row THEN {} ELSE young
    /\ UNCHANGED <<chat, actions, queue, locks, redis_up, sessions>>
    /\ Bounded'

(* ------------------ admin.py, pm_agent.py, tech_lead_agent.py ---------- *)

AdminTransition(to_col) ==
    /\ SetStore(admin_transition_issue(Store, to_col))
    /\ young' = {}
    /\ UNCHANGED <<chat, actions, locks, redis_up, sessions, procs>>

\* pm_agent.handle_message: the visible reply, then the ticket_action and the
\* ticket_confirmed blocks of the LLM reply, each through the internal
\* endpoint; a confirmed ticket is logged as a completed AgentAction
PMHandleMessage(to_col, confirmed) ==
    LET s1 == IF to_col = "none" THEN Store
              ELSE transition_issue_internal(Store, to_col, "pm_agent")
        s2 == IF confirmed
              THEN transition_issue_internal(s1, "ready_for_uat_approval", "pm_agent")
              ELSE s1
    IN  /\ chat' = post_chat_message(chat, "notice", "pm")
        /\ actions' = IF confirmed
                       THEN Newest(Append(actions, AgentAction("pm", "completed")),
                                   MaxActions)
                       ELSE actions
        /\ SetStore(s2)
        /\ young' = {}
        /\ UNCHANGED <<locks, redis_up, sessions, procs>>
        /\ Bounded'

\* tech_lead_agent.run: announcement, LLM review, hand back to dev
TechLeadRun(ok) ==
    /\ queue["tech_lead"] > 0
    /\ LET q == [queue EXCEPT !["tech_lead"] = @ - 1]
           s == [Store EXCEPT !.queue = q]
           t == transition_issue_internal(s, "in_progress", "tech_lead")
       IN  IF ok
           THEN /\ chat' = post_chat_message(post_chat_message(chat, "notice", "tech_lead"),
                                             "notice", "tech_lead")
                /\ SetStore([t EXCEPT !.queue = Enqueue(@, "dev")])
           ELSE /\ chat' = post_chat_message(post_chat_message(chat, "notice", "tech_lead"),
                                             "notice", "tech_lead")
                /\ SetStore(s)
    /\ young' = {}
    /\ UNCHANGED <<actions, locks, redis_up, sessions, procs>>
    /\ Bounded'

(* ------------------------------ Redis TTL ------------------------------ *)

\* the key expires 900 s after SET; a runner's own run is far shorter (its
\* HTTP calls time out after 15 s and 30 s), so no key expires under a run
LockExpire(role) ==
    /\ role \in locks
    /\ ~RunnerActive(role)
    /\ locks' = locks \ {role}
    /\ young' = young \ {role}
    /\ UNCHANGED <<issue, transitions, whole, chat, actions, queue, redis_up, sessions,
                   procs>>

\* the Redis server stops answering, or answers again; its keys are kept
RedisFlips ==
    /\ redis_up' = ~redis_up
    /\ UNCHANGED <<issue, transitions, whole, chat, actions, queue, locks, young, sessions,
                   procs>>

(* ------------------ stall_checker.check_stalled_tickets ---------------- *)

\* the thresholds of the sweep, in minutes
TODO_PICKUP_MINUTES == 5
AGENT_STUCK_MINUTES == 20
STALL_INPROGRESS_MINUTES == 45
STALL_THRESHOLD_MINUTES == 240

\* the default ttl_seconds of try_acquire_agent_lock, in minutes
LOCK_TTL_MINUTES == 15

\* how far ahead tiers 1 and 2 set stall_check_at, in minutes
PICKUP_BUMP_MINUTES == 15

\* how old the last activity of the issue is when a sweep runs, in minutes
Ages == {10, 30, 300}

\* an operation in flight has written a transition row or a chat message
\* within the last seconds
Recent ==
    \E p \in Procs :
       \/ /\ procs[p].op = "runner"
          /\ procs[p].pc \in {"starting", "spawn", "running", "failed", "revert",
                              "record"}
       \/ procs[p].op = "callback" /\ procs[p].posted + procs[p].wrote > 0

\* a last activity that old fits the timers: a key or a stall_check_at set
\* before the last activity has run out once the activity is older than it
\* lasts
AgeFits(age) ==
    /\ ~Recent
    /\ age > LOCK_TTL_MINUTES => locks \subseteq young
    /\ age > PICKUP_BUMP_MINUTES /\ issue.stall_check_at = "future"
          => "stall_check_at" \in young

\* the WHERE clause of the SELECT
Selected(i) ==
    /\ i.kanban_column \in {"todo", "ready_for_qa", "in_progress", "in_qa"}
    /\ i.stall_check_at \in {"null", "due"}

\* a tier 1 that waits for the stuck threshold
SweepTier_late(kanban_col, age) ==
    CASE kanban_col = "todo" /\ age > AGENT_STUCK_MINUTES -> "1"
      [] kanban_col = "ready_for_qa" /\ age > TODO_PICKUP_MINUTES -> "2"
      [] kanban_col = "in_qa" /\ age > AGENT_STUCK_MINUTES -> "2b"
      [] kanban_col = "in_progress" /\ age > AGENT_STUCK_MINUTES -> "2c"
      [] OTHER -> "none"

\* the first tier whose condition the row meets: each tier ends with continue
SweepTier(kanban_col, age) ==
    IF kanban_col = "todo" /\ age > TODO_PICKUP_MINUTES THEN "1"
    ELSE IF kanban_col = "ready_for_qa" /\ age > TODO_PICKUP_MINUTES THEN "2"
    ELSE IF kanban_col = "in_qa" /\ age > AGENT_STUCK_MINUTES THEN "2b"
    ELSE IF kanban_col = "in_progress" /\ age > AGENT_STUCK_MINUTES THEN "2c"
    ELSE IF /\ kanban_col \in {"in_progress", "in_qa"}
            /\ age > STALL_INPROGRESS_MINUTES
            /\ age <= STALL_THRESHOLD_MINUTES THEN "3a"
    ELSE IF kanban_col \in {"in_progress", "in_qa"} /\ age > STALL_THRESHOLD_MINUTES
         THEN "3b"
    ELSE "none"

\* the SELECT: the issue is a row of the sweep when its column is active and
\* stall_check_at is null or past; without rows the task returns
SweepRead(p, age) ==
    /\ Idle(p)
    /\ AgeFits(age)
    /\ SetProc(p, IF Selected(issue)
                  THEN [IdleProc EXCEPT !.op = "sweep", !.pc = "apply", !.age = age,
                                        !.from = issue.kanban_column]
                  ELSE [IdleProc EXCEPT !.op = "sweep", !.pc = "norows", !.age = age])
    /\ UNCHANGED <<issue, transitions, whole, chat, actions, queue, locks, young, redis_up,
                   sessions>>

\* if not rows: return
SweepNoRows(p) ==
    /\ procs[p].op = "sweep" /\ procs[p].pc = "norows"
    /\ SetProc(p, IdleProc)
    /\ UNCHANGED <<issue, transitions, whole, chat, actions, queue, locks, young, redis_up,
                   sessions>>

\* the tier chosen from the row read, applied to the issue as it is now
SweepApply(p) ==
    /\ procs[p].op = "sweep" /\ procs[p].pc = "apply"
    /\ LET tier == SweepTier(procs[p].from, procs[p].age)
       IN  CASE tier = "1" ->
                  /\ queue' = Enqueue(queue, "dev")
                  /\ issue' = [issue EXCEPT !.stall_check_at = "future"]
                  /\ young' = young \cup {"stall_check_at"}
                  /\ UNCHANGED <<transitions, whole, chat>>
             [] tier = "2" ->
                  /\ queue' = Enqueue(queue, "qa")
                  /\ issue' = [issue EXCEPT !.stall_check_at = "future"]
                  /\ young' = young \cup {"stall_check_at"}
                  /\ UNCHANGED <<transitions, whole, chat>>
             [] tier = "2b" ->
                  /\ SetStore(transition_issue_direct(Store, "ready_for_qa", "system"))
                  /\ chat' = post_chat_message(chat, "notice", "system")
                  /\ young' = {}
             [] tier = "2c" ->
                  /\ SetStore(transition_issue_direct(Store, "todo", "system"))
                  /\ chat' = post_chat_message(chat, "notice", "system")
                  /\ young' = {}
             [] tier = "3a" ->
                  /\ chat' = post_chat_message(chat, "notice", "system")
                  /\ issue' = [issue EXCEPT !.stall_check_at = "far"]
                  /\ young' = {}
                  /\ UNCHANGED <<transitions, whole, queue>>
             [] tier = "3b" ->
                  /\ chat' = post_chat_message(chat, "notice", "system")
                  /\ queue' = Enqueue(queue, "tech_lead")
                  /\ issue' = [issue EXCEPT !.stall_check_at = "far"]
                  /\ young' = {}
                  /\ UNCHANGED <<transitions, whole, whole>>
             [] OTHER ->
                  UNCHANGED <<issue, transitions, whole, chat, queue, young>>
    /\ SetProc(p, IdleProc)
    /\ UNCHANGED <<actions, locks, redis_up, sessions>>
    /\ Bounded'

\* time: a stall_check_at set ahead by a sweep comes due
TimePasses ==
    /\ issue.stall_check_at \in {"future", "far"}
    /\ issue' = [issue EXCEPT !.stall_check_at = "due"]
    /\ young' = young \ {"stall_check_at"}
    /\ UNCHANGED <<transitions, whole, chat, actions, queue, locks, redis_up, sessions, procs>>

(* --------------------------- specifications ---------------------------- *)

\* an arriving operation takes the first free slot
Slot == IF Idle("p1") THEN "p1" ELSE "p2"

AllIdle == \A p \in Procs : Idle(p)

\* the only operations in flight are of the kind op
NoneBut(op) == \A p \in Procs : procs[p].op \in {"idle", op}

\* the jobs and calls of the pipeline in flight take their next step
RunnerStep ==
    \/ \E p \in Procs : RunnerDuplicate(p)
    \/ \E p \in Procs : RunnerPreflight(p)
    \/ \E p \in Procs, ok \in BOOLEAN : RunnerEnter(p, ok)
    \/ \E p \in Procs : RunnerStarting(p)
    \/ \E p \in Procs, ok \in BOOLEAN : RunnerSpawn(p, ok)
    \/ \E p \in Procs : RunnerRunning(p)
    \/ \E p \in Procs : RunnerFailed(p)
    \/ \E p \in Procs : RunnerRevert(p)
    \/ \E p \in Procs : RunnerRecord(p)

CallbackStep ==
    \/ \E p \in Procs : CallbackGuard(p)
    \/ \E p \in Procs : CallbackChat(p)
    \/ \E p \in Procs : CallbackTransition(p)
    \/ \E p \in Procs : CallbackRelease(p)
    \/ \E p \in Procs : CallbackDone(p)

\* the pipeline, one operation at a time, each of its transactions and calls
\* a step: PM intake, the customer's pipeline requests, the runners, the
\* agent callbacks (the same body sent again), tech lead, sweep, lock TTL
Next ==
    \/ AllIdle /\ \E confirmed \in BOOLEAN : PMHandleMessage("none", confirmed)
    \/ AllIdle /\ \E to_col \in Columns : TransitionRequest(Slot, to_col)
    \/ AllIdle /\ ApproveAndStartRequest(Slot)
    \/ AllIdle /\ UatRejectRequest(Slot)
    \/ \E p \in Procs : CustomerCommit(p)
    \/ AllIdle /\ \E role \in Roles : RunnerStart(Slot, role)
    \/ RunnerStep
    \/ AllIdle /\ \E role \in Roles :
                      \E body \in CallbackBodies(role) : CallbackBegin(Slot, role, body)
    \/ CallbackStep
    \/ \E p \in Procs : CallbackRedeliver(p)
    \/ AllIdle /\ \E ok \in BOOLEAN : TechLeadRun(ok)
    \/ AllIdle /\ \E age \in Ages : SweepRead(Slot, age)
    \/ \E p \in Procs : SweepNoRows(p)
    \/ \E p \in Procs : SweepApply(p)
    \/ AllIdle /\ \E role \in Roles : LockExpire(role)
    \/ AllIdle /\ TimePasses

Spec == Init /\ [][Next]_vars

\* the writers of the issue row with the workers stopped, one request at a
\* time: the customer's pipeline and legacy requests, admin, and PM replies
\* carrying one block
LegacyNext ==
    \/ AllIdle /\ \E to_col \in PMColumns : PMHandleMessage(to_col, FALSE)
    \/ AllIdle /\ \E confirmed \in BOOLEAN : PMHandleMessage("none", confirmed)
    \/ AllIdle /\ \E to_col \in Columns : TransitionRequest(Slot, to_col)
    \/ AllIdle /\ ApproveAndStartRequest(Slot)
    \/ AllIdle /\ UatRejectRequest(Slot)
    \/ AllIdle /\ \E status \in Statuses : UpdateStatusRequest(Slot, status)
    \/ AllIdle /\ ApproveRequest
    \/ \E p \in Procs : CustomerCommit(p)
    \/ AllIdle /\ \E to_col \in Columns : AdminTransition(to_col)

LegacySpec == Init /\ [][LegacyNext]_vars

\* two workers: runner jobs overlap each other; every other operation runs
\* while no runner step is taken
RunnerNext ==
    \/ AllIdle /\ \E confirmed \in BOOLEAN : PMHandleMessage("none", confirmed)
    \/ AllIdle /\ \E to_col \in Columns : TransitionRequest(Slot, to_col)
    \/ AllIdle /\ ApproveAndStartRequest(Slot)
    \/ AllIdle /\ UatRejectRequest(Slot)
    \/ \E p \in Procs : CustomerCommit(p)
    \/ NoneBut("runner") /\ \E role \in Roles : RunnerStart(Slot, role)
    \/ RunnerStep
    \/ AllIdle /\ \E role \in Roles :
                      \E body \in CallbackBodies(role) : CallbackBegin(Slot, role, body)
    \/ CallbackStep
    \/ AllIdle /\ \E role \in Roles : LockExpire(role)
    \/ NoneBut("runner") /\ \E age \in Ages : SweepRead(Slot, age)
    \/ \E p \in Procs : SweepNoRows(p)
    \/ \E p \in Procs : SweepApply(p)
    \/ AllIdle /\ TimePasses

RunnerSpec == Init /\ [][RunnerNext]_vars

\* two workers while the Redis server comes and goes: runner jobs overlap each
\* other and the sweep that re-sends them
OutageNext ==
    \/ AllIdle /\ \E confirmed \in BOOLEAN : PMHandleMessage("none", confirmed)
    \/ AllIdle /\ ApproveAndStartRequest(Slot)
    \/ \E p \in Procs : CustomerCommit(p)
    \/ NoneBut("runner") /\ \E role \in Roles : RunnerStart(Slot, role)
    \/ RunnerStep
    \/ AllIdle /\ \E role \in Roles :
                      \E body \in CallbackBodies(role) : CallbackBegin(Slot, role, body)
    \/ CallbackStep
    \/ NoneBut("runner") /\ \E age \in Ages : SweepRead(Slot, age)
    \/ \E p \in Procs : SweepNoRows(p)
    \/ \E p \in Procs : SweepApply(p)
    \/ AllIdle /\ TimePasses
    \/ AllIdle /\ RedisFlips

OutageSpec == Init /\ [][OutageNext]_vars

\* the callback endpoint serving two requests at once
CallbackNext ==
    \/ AllIdle /\ \E confirmed \in BOOLEAN : PMHandleMessage("none", confirmed)
    \/ AllIdle /\ ApproveAndStartRequest(Slot)
    \/ \E p \in Procs : CustomerCommit(p)
    \/ AllIdle /\ \E role \in Roles : RunnerStart(Slot, role)
    \/ RunnerStep
    \/ NoneBut("callback") /\ \E role \in Roles :
          \E body \in AgentResultBodies(role), authorization \in Headers :
              AgentResultArrives(Slot, role, body, authorization)
    \/ \E p, q \in Procs : CallbackDuplicate(p, q)
    \/ CallbackStep

CallbackSpec == Init /\ [][CallbackNext]_vars

\* a uat-reject request stays in flight, between its read and its commit,
\* while the pipeline goes on
RequestNext ==
    \/ AllIdle /\ \E confirmed \in BOOLEAN : PMHandleMessage("none", confirmed)
    \/ AllIdle /\ \E to_col \in Columns : TransitionRequest(Slot, to_col)
    \/ AllIdle /\ ApproveAndStartRequest(Slot)
    \/ UatRejectRequest(Slot)
    \/ \E p \in Procs : CustomerCommit(p)
    \/ NoneBut("customer") /\ \E role \in Roles : RunnerStart(Slot, role)
    \/ RunnerStep
    \/ NoneBut("customer") /\ \E role \in Roles :
          \E body \in CallbackBodies(role) : CallbackBegin(Slot, role, body)
    \/ CallbackStep

RequestSpec == Init /\ [][RequestNext]_vars

\* the pipeline left to itself, with the store, the broker, the lock server
\* and the agent gateway answering: PM confirmation of a new ticket, the
\* customer's approval, runners, success callbacks, sweeps and timers; a
\* queued job is taken by a free worker whatever else is in flight, every
\* other operation arrives while nothing is in flight

\* the body the agent prompt tells a session to post when its work succeeded
SuccessBody(role) ==
    [status |-> "success", to |-> IF role = "dev" THEN "ready_for_qa"
                                  ELSE "ready_for_uat"]

LiveStep(p) ==
    \/ CustomerCommit(p)
    \/ RunnerDuplicate(p)
    \/ RunnerPreflight(p)
    \/ RunnerEnter(p, TRUE)
    \/ RunnerStarting(p)
    \/ RunnerSpawn(p, TRUE)
    \/ RunnerRunning(p)
    \/ CallbackGuard(p)
    \/ CallbackChat(p)
    \/ CallbackTransition(p)
    \/ CallbackRelease(p)
    \/ CallbackDone(p)
    \/ SweepNoRows(p)
    \/ SweepApply(p)

LiveConfirm ==
    AllIdle /\ issue.kanban_column = "triage" /\ PMHandleMessage("none", TRUE)

LiveApprove ==
    AllIdle /\ issue.kanban_column = "ready_for_uat_approval"
            /\ ApproveAndStartRequest(Slot)

\* a job is taken once the role has room for a session (MaxSessions)
LiveStart(role) ==
    /\ sessions[role] < MaxSessions
    /\ RunnerStart(Slot, role)

\* a session calls back once the queue has room for the job its move sends
\* (MaxQueue)
LiveCallback(role) ==
    /\ AllIdle
    /\ role = "dev" => queue["qa"] < MaxQueue
    /\ CallbackBegin(Slot, role, SuccessBody(role))

\* a sweep comes round once the queue has room for the job it may send
\* (MaxQueue)
LiveSweep(age) ==
    /\ AllIdle
    /\ \A role \in Roles : queue[role] < MaxQueue
    /\ SweepRead(Slot, age)

LiveExpire(role) == AllIdle /\ LockExpire(role)

LiveTime == AllIdle /\ TimePasses

LiveNext ==
    \/ LiveConfirm
    \/ LiveApprove
    \/ \E role \in Roles : LiveStart(role)
    \/ \E role \in Roles : LiveCallback(role)
    \/ \E p \in Procs : LiveStep(p)
    \/ \E age \in Ages : LiveSweep(age)
    \/ \E role \in Roles : LiveExpire(role)
    \/ LiveTime

\* fair scheduling: every operation in flight goes on, every queued job is
\* taken, every live session calls back, the sweep keeps coming round also
\* once the last activity is old, and the timers run out
LiveFair ==
    /\ \A p \in Procs : SF_vars(LiveStep(p))
    /\ \A role \in Roles : SF_vars(LiveStart(role))
    /\ \A role \in Roles : SF_vars(LiveCallback(role))
    /\ \A age \in Ages : SF_vars(LiveSweep(age))
    /\ \A role \in Roles : SF_vars(LiveExpire(role))
    /\ SF_vars(LiveTime)

LiveSpec == Init /\ [][LiveNext]_vars /\ LiveFair

(* ------------------------------- claims -------------------------------- *)

\* the runner job in slot p is between passing its pre-flight and returning
PastPreflight(p, role) ==
    /\ procs[p].op = "runner"
    /\ procs[p].role = role
    /\ procs[p].pc \notin {"duplicate", "preflight"}

\* C1: for every role, at no time are two runner jobs of that role both
\* between passing their column pre-flight check and returning
C1_OneRunnerPastPreflight ==
    \A role \in Roles : \A p, q \in Procs :
        PastPreflight(p, role) /\ PastPreflight(q, role) => p = q

\* both deliveries of a callback, one after the other, have been answered
DeliveredTwice(p) ==
    procs[p].op = "callback" /\ procs[p].pc = "returned" /\ procs[p].n = 2

C3_OnlyFirstAdvances ==
    \A p, q \in Procs :
        /\ p # q
        /\ procs[p].op = "callback" /\ procs[q].op = "callback"
        /\ procs[p].role = procs[q].role
        /\ procs[p].to = procs[q].to /\ procs[p].to # "none"
        => /\ procs[p].wrote + procs[q].wrote <= 1
           /\ procs[p].posted + procs[q].posted <= 1

\* C4: once a QA failure callback that found the issue in in_qa is answered,
\* the issue is in todo with dev_fail_count raised, the newest transition row
\* is in_qa -> todo by the QA agent, and a dev runner job is queued
C4_QAFailureToTodo ==
    \A p \in Procs :
        /\ procs[p].op = "callback" /\ procs[p].pc = "returned" /\ procs[p].n = 1
        /\ procs[p].role = "qa" /\ procs[p].status = "failure"
        /\ procs[p].from = "in_qa"
        => /\ issue.kanban_column = "todo"
           /\ procs[p].wrote = 1
           /\ transitions # <<>>
           /\ transitions[Len(transitions)] = Row("in_qa", "todo", "qa_agent")
           /\ issue.dev_fail_count >= 1
           /\ queue["dev"] >= 1

\* a customer request in slot p has just been handled up to its commit
Handled(p) == Idle(p) /\ procs'[p].op = "customer"

\* C5: an operation that raises dev_fail_count to 3 enqueues one tech_lead
\* job and no dev runner job
C5_ThresholdEnqueuesTechLeadOnly ==
    [][(\/ \E p \in Procs :
              Handled(p) /\ procs'[p].w.dev_fail_count = TECH_LEAD_FAIL_THRESHOLD
        \/ /\ issue.dev_fail_count < TECH_LEAD_FAIL_THRESHOLD
           /\ issue'.dev_fail_count = TECH_LEAD_FAIL_THRESHOLD
           /\ \A p \in Procs : procs[p].op # "customer")
       => /\ queue'["tech_lead"] = queue["tech_lead"] + 1
          /\ queue'["dev"] = queue["dev"]]_vars

\* C6: the legacy status is the projection of kanban_column
C6_StatusIsProjection ==
    issue.status = _kanban_to_legacy_status(issue.kanban_column)

\* C7: resolved_at is set exactly when the issue is in done
C7_ResolvedIffDone ==
    (issue.resolved_at # "null") <=> (issue.kanban_column = "done")

\* C8: the stored dev_fail_count never decreases
C8_FailCountNeverDecreases ==
    [][issue'.dev_fail_count >= issue.dev_fail_count]_vars

\* C9: a transition row appended to the log starts at the column the row
\* before it ended at
C9_LogIsAChain ==
    [][transitions # <<>> /\ transitions' # transitions
       => transitions'[Len(transitions')].from_col
              = transitions[Len(transitions)].to_col]_vars

\* C10: kanban_column changes only together with a new transition row from
\* the old column to the new one, and no row is appended without a change
C10_ColumnChangesWithRow ==
    [][/\ issue'.kanban_column # issue.kanban_column
          => /\ transitions' # <<>>
             /\ transitions'[Len(transitions')].from_col = issue.kanban_column
             /\ transitions'[Len(transitions')].to_col = issue'.kanban_column
       /\ transitions' # transitions
          => issue'.kanban_column # issue.kanban_column]_vars

\* the customer's row of the permission matrix
CustomerMay(from_col, to_col) ==
    \/ to_col = "dismissed"
    \/ <<from_col, to_col>> \in {<<"ready_for_uat_approval", "todo">>,
                                 <<"ready_for_uat", "done">>,
                                 <<"ready_for_uat", "todo">>}

\* C11: a customer transition request is accepted (its session goes on to
\* commit the move and its row) exactly when the move is in the customer's row
\* of the matrix or is a dismissal; any other request leaves the issue row,
\* the transition log and the job queues as they were
C11_CustomerMatrix ==
    [][\A p \in Procs, to_col \in Columns :
          TransitionRequest(p, to_col) =>
              IF CustomerMay(issue.kanban_column, to_col)
              THEN /\ procs'[p].op = "customer" /\ procs'[p].pc = "commit"
                   /\ procs'[p].from = issue.kanban_column
                   /\ procs'[p].to = to_col
                   /\ procs'[p].w.row
              ELSE UNCHANGED <<issue, transitions, queue, procs>>]_vars

\* a customer request ready_for_uat -> done has been accepted
C11_UatPassAccepted ==
    \E p \in Procs :
        /\ procs[p].op = "customer" /\ procs[p].req = "transition"
        /\ procs[p].from = "ready_for_uat" /\ procs[p].to = "done"

\* the agents' rows of the permission matrix
AgentMay(actor_type) ==
    CASE actor_type = "pm_agent" -> {<<"triage", "ready_for_uat_approval">>}
      [] actor_type = "dev_agent" -> {<<"todo", "in_progress">>,
                                      <<"in_progress", "ready_for_qa">>}
      [] actor_type = "qa_agent" -> {<<"ready_for_qa", "in_qa">>,
                                     <<"in_qa", "ready_for_uat">>,
                                     <<"in_qa", "todo">>}

\* C12: every transition row recorded with actor pm_agent, dev_agent or
\* qa_agent is a move of that actor's row of the permission matrix
C12_AgentRowsObeyMatrix ==
    \A i \in 1..Len(transitions) :
        transitions[i].actor_type \in {"pm_agent", "dev_agent", "qa_agent"}
        => <<transitions[i].from_col, transitions[i].to_col>>
               \in AgentMay(transitions[i].actor_type)

\* C13: once the issue is in done or dismissed, no step changes its column
\* or adds a transition row
C13_DoneDismissedTerminal ==
    [][issue.kanban_column \in {"done", "dismissed"}
       => /\ issue'.kanban_column = issue.kanban_column
          /\ transitions' = transitions]_vars

\* C14: a uat-reject request on an issue in ready_for_uat raises the stored
\* dev_fail_count by one; below 3 the issue goes to todo and one dev runner
\* job (no tech_lead job) is sent, from 3 on it goes to triage and one
\* tech_lead job (no dev runner job) is sent; from any other column the
\* request changes nothing
C14_UatRejectContract ==
    [][/\ \A p \in Procs :
             UatRejectRequest(p) =>
                 IF issue.kanban_column = "ready_for_uat"
                 THEN /\ procs'[p].w.dev_fail_count = issue.dev_fail_count + 1
                      /\ IF issue.dev_fail_count + 1 < 3
                         THEN /\ procs'[p].w.kanban_column = "todo"
                              /\ queue' = Enqueue(queue, "dev")
                         ELSE /\ procs'[p].w.kanban_column = "triage"
                              /\ queue' = Enqueue(queue, "tech_lead")
                 ELSE UNCHANGED <<issue, transitions, queue, procs>>
       /\ \A p \in Procs :
             /\ procs[p].op = "customer" /\ procs[p].req = "uat_reject"
             /\ procs'[p].op = "idle"
             /\ issue.kanban_column = "ready_for_uat"
             => /\ issue'.dev_fail_count = issue.dev_fail_count + 1
                /\ issue'.kanban_column =
                      IF issue'.dev_fail_count < 3 THEN "todo" ELSE "triage"]_vars

\* the canonical order of the pipeline columns; dismissed is not part of it
CanonicalOrder ==
    <<"triage", "ready_for_uat_approval", "todo", "in_progress",
      "ready_for_qa", "in_qa", "ready_for_uat", "done">>

CanonicalIdx(col) == CHOOSE i \in 1..Len(CanonicalOrder) : CanonicalOrder[i] = col

\* the callback's target is the column col or one before it
AtOrPast(col, to) ==
    /\ \E i \in 1..Len(CanonicalOrder) : CanonicalOrder[i] = col
    /\ \E i \in 1..Len(CanonicalOrder) : CanonicalOrder[i] = to
    /\ CanonicalIdx(col) >= CanonicalIdx(to)

C16_ProcessedCallbackFreesLock ==
    \A p \in Procs :
        /\ procs[p].op = "callback" /\ procs[p].pc = "returned"
        /\ procs[p].posted >= 1
        => procs[p].role \notin locks

\* C17: a callback whose Authorization header is not exactly the word Bearer,
\* one space and the configured token is refused, and the chat log, the
\* column, the transition log and the agent locks stay as they are
C17_WrongTokenRefused ==
    [][/\ \A p \in Procs, role \in Roles, authorization \in Headers :
             \A body \in AgentResultBodies(role) :
                 /\ AgentResultArrives(p, role, body, authorization)
                 /\ authorization # "Bearer tkn"
                 => /\ procs'[p].pc = "denied"
                    /\ UNCHANGED <<issue, transitions, chat, locks>>
       /\ \A p \in Procs :
             procs[p].pc = "denied" /\ procs'[p] # procs[p]
             => /\ procs'[p] = IdleProc
                /\ UNCHANGED <<issue, transitions, chat, locks>>]_vars

\* a callback of a running agent, its lock held, has been refused
C17_RefusedUnderLock ==
    \E p \in Procs :
        /\ procs[p].op = "callback" /\ procs[p].pc = "denied"
        /\ procs[p].role \in locks

\* the runner job in slot p has the lock of its role from its try-acquire
HoldsLock(p, role) ==
    /\ procs[p].op = "runner" /\ procs[p].role = role
    /\ procs[p].pc \in {"preflight", "enter", "starting", "spawn", "running"}

\* C18: a dev runner job that starts while another holds agent_lock:dev is
\* refused the lock and returns with the column, the transition log, the chat
\* log, the sessions and the lock as they were; the job that finds the lock
\* free takes it, and no two dev jobs hold it
C18_DuplicateDevJobAborts ==
    [][\A p \in Procs :
          /\ RunnerStart(p, "dev") /\ "dev" \in locks
             => /\ procs'[p].pc = "duplicate"
                /\ UNCHANGED <<issue, transitions, chat, sessions, locks>>
          /\ RunnerStart(p, "dev") /\ "dev" \notin locks
             => /\ procs'[p].pc = "preflight"
                /\ "dev" \in locks'
          /\ procs[p].pc = "duplicate" /\ procs'[p] # procs[p]
             => /\ procs'[p] = IdleProc
                /\ UNCHANGED <<issue, transitions, chat, sessions, locks, queue>>
          /\ \A q \in Procs :
                HoldsLock(p, "dev")' /\ HoldsLock(q, "dev")' => p = q]_vars

\* one dev job holds the lock and is at work while a second, dispatched
\* meanwhile, has been refused
C18_WinnerAndDuplicate ==
    \E p, q \in Procs :
        /\ HoldsLock(p, "dev")
        /\ procs[q].op = "runner" /\ procs[q].role = "dev"
        /\ procs[q].pc = "duplicate"

\* C19: while the Redis server does not answer, at most one runner job of a
\* role is past its pre-flight check
C19_PreflightBackstop ==
    ~redis_up =>
        \A role \in Roles : \A p, q \in Procs :
            PastPreflight(p, role) /\ PastPreflight(q, role) => p = q

\* C20: a runner, dev or QA, whose pre-flight check finds the issue outside
\* the entry column of its role returns with the lock released and with the
\* column, the chat log and the sessions as they were
C20_PreflightAbortReleases ==
    [][\A p \in Procs :
          /\ procs[p].op = "runner" /\ procs[p].pc = "preflight"
          /\ procs'[p] # procs[p]
          /\ issue.kanban_column # EntryCol(procs[p].role)
          => /\ procs'[p] = IdleProc
             /\ procs[p].role \notin locks'
             /\ UNCHANGED <<issue, transitions, chat, sessions>>]_vars

\* C21: when a runner whose spawn failed returns, the lock of its role is
\* released, the issue is back in the role's entry column, the newest
\* AgentAction is the role's failed record and the newest chat message is the
\* role's error notice
C21_SpawnFailureSemantics ==
    [][\A p \in Procs :
          /\ procs[p].op = "runner" /\ procs[p].pc = "record"
          /\ procs'[p] = IdleProc
          => /\ procs[p].role \notin locks'
             /\ issue'.kanban_column = EntryCol(procs[p].role)
             /\ actions' # <<>>
             /\ actions'[Len(actions')] = AgentAction(procs[p].role, "failed")
             /\ chat' # <<>>
             /\ chat'[Len(chat')] = ChatMessage(procs[p].role, "notice")]_vars

\* C22: a runner spawns a session only while the issue is in the work column
\* of its role; a run whose enter transition failed spawns nothing
C22_SpawnOnlyInWorkColumn ==
    [][\A p \in Procs :
          /\ procs[p].op = "runner" /\ procs[p].pc = "spawn"
          /\ sessions'[procs[p].role] = sessions[procs[p].role] + 1
          => issue.kanban_column = WorkCol(procs[p].role)]_vars

\* C23: the failure handling of a runner (lock release, revert, failure
\* record) enqueues no runner job; after a failed run only a sweep does
C23_FailureEnqueuesNothing ==
    [][\A p \in Procs :
          /\ procs[p].op = "runner"
          /\ procs[p].pc \in {"failed", "revert", "record"}
          /\ procs'[p] # procs[p]
          => /\ queue'["dev"] <= queue["dev"]
             /\ queue'["qa"] <= queue["qa"]]_vars

WorkRole(col) == IF col = "in_qa" THEN "qa" ELSE "dev"

\* C26: when a sweep reverts a stuck issue (in_progress -> todo, in_qa ->
\* ready_for_qa) while no runner of the column's role is at work, the lock of
\* that role is free, so that the runner the revert enqueues acquires it
C26_RevertFindsLockFree ==
    [][\A p \in Procs :
          /\ procs[p].op = "sweep" /\ procs[p].pc = "apply"
          /\ SweepTier(procs[p].from, procs[p].age) \in {"2b", "2c"}
          /\ ~RunnerActive(WorkRole(procs[p].from))
          /\ procs'[p] = IdleProc
          => WorkRole(procs[p].from) \notin locks]_vars

\* C27: a sweep whose SELECT returns the issue in in_progress or in_qa with a
\* last activity at least 4 hours old enqueues a tech_lead job, posts the
\* system's escalation message and sets stall_check_at ahead
C27_StalledEscalates ==
    [][\A p \in Procs :
          /\ procs[p].op = "sweep" /\ procs[p].pc = "apply"
          /\ procs[p].from \in {"in_progress", "in_qa"}
          /\ procs[p].age >= STALL_THRESHOLD_MINUTES
          /\ procs'[p] = IdleProc
          => /\ queue'["tech_lead"] = queue["tech_lead"] + 1
             /\ chat' # <<>>
             /\ chat'[Len(chat')] = ChatMessage("system", "notice")
             /\ issue'.stall_check_at = "far"]_vars

\* C28: a sweep applies a tier to the issue only if the issue, at that moment,
\* is in the column the row was read in with stall_check_at null or past; a
\* sweep changes nothing of an issue that is in triage,
\* ready_for_uat_approval, ready_for_uat, done or dismissed
C28_SweepAppliesToCurrentColumn ==
    [][\A p \in Procs :
          /\ procs[p].op = "sweep" /\ procs'[p] = IdleProc
          => /\ issue' # issue \/ transitions' # transitions
                \/ chat' # chat \/ queue' # queue
                => /\ issue.kanban_column = procs[p].from
                   /\ Selected(issue)
             /\ issue.kanban_column \in {"triage", "ready_for_uat_approval",
                                         "ready_for_uat", "done", "dismissed"}
                => UNCHANGED <<issue, transitions, chat, queue>>]_vars

\* the actors of the happy path, row by row
HappyActors ==
    <<"pm_agent", "customer", "dev_agent", "dev_agent", "qa_agent", "qa_agent",
      "customer">>

\* the first k rows of the happy path
HappyLog(k) ==
    [i \in 1..k |-> Row(PipelineChain[i], PipelineChain[i + 1], HappyActors[i])]

\* the run so far is the first k moves of the happy path and nothing else
OnHappyPath(k) ==
    /\ whole
    /\ transitions = HappyLog(k)
    /\ issue.kanban_column = PipelineChain[k + 1]
    /\ issue.dev_fail_count = 0

\* C29: each operation of the happy path (PM confirmation, approve-and-start,
\* dev runner, dev success callback, QA runner, QA success callback, customer
\* move to done), taken in its turn, adds its one row of the chain; the run
\* ends in done with resolved_at set, dev_fail_count 0 and the 7 rows triage ->
\* ready_for_uat_approval -> todo -> in_progress -> ready_for_qa -> in_qa ->
\* ready_for_uat -> done; a log that is the whole chain belongs to an issue in
\* done with resolved_at set and dev_fail_count 0
C29_HappyPath ==
    /\ [](whole /\ Len(transitions) = 7 /\ IsChain(transitions)
            => /\ issue.kanban_column = "done"
               /\ issue.resolved_at = "set"
               /\ issue.dev_fail_count = 0)
    /\ [][/\ OnHappyPath(0) /\ PMHandleMessage("none", TRUE) => OnHappyPath(1)'
          /\ \A p \in Procs :
                /\ OnHappyPath(1) /\ procs[p].req = "approve_and_start"
                      /\ CustomerCommit(p) => OnHappyPath(2)'
                /\ OnHappyPath(2) /\ procs[p].role = "dev"
                      /\ RunnerEnter(p, TRUE) => OnHappyPath(3)'
                /\ OnHappyPath(3) /\ procs[p].role = "dev"
                      /\ procs[p].to = "ready_for_qa"
                      /\ CallbackTransition(p) => OnHappyPath(4)'
                /\ OnHappyPath(4) /\ procs[p].role = "qa"
                      /\ RunnerEnter(p, TRUE) => OnHappyPath(5)'
                /\ OnHappyPath(5) /\ procs[p].role = "qa"
                      /\ procs[p].to = "ready_for_uat"
                      /\ CallbackTransition(p) => OnHappyPath(6)'
                /\ OnHappyPath(6) /\ procs[p].req = "transition"
                      /\ procs[p].to = "done"
                      /\ CustomerCommit(p)
                      => OnHappyPath(7)' /\ issue'.resolved_at = "set"]_vars

\* the happy path has been run to its end
C29_HappyRunDone ==
    /\ AllIdle
    /\ OnHappyPath(7)
    /\ issue.resolved_at = "set"
    /\ sessions = [r \in Roles |-> 0]
    /\ locks = {}

\* C30: every step that moves the issue into todo belongs to an operation that
\* sends a dev runner job (the customer's requests send it before their
\* commit), and every step that moves it into ready_for_qa sends a QA job
C30_EntryEnqueuesRunner ==
    [][/\ issue'.kanban_column = "todo" /\ transitions' # transitions
          => \/ queue'["dev"] = queue["dev"] + 1
             \/ \E p \in Procs : procs[p].op = "customer" /\ procs'[p] = IdleProc
       /\ issue'.kanban_column = "ready_for_qa" /\ transitions' # transitions
          => queue'["qa"] = queue["qa"] + 1]_vars

\* C31: a dev runner job enqueued by a customer's move to todo (transition
\* request or approve-and-start) is not picked up against uncommitted state:
\* while that request's transaction is still open, a dev runner that reaches
\* its pre-flight check finds the issue in todo
C31_JobSeesCommittedMove ==
    [][\A p, q \in Procs :
          /\ procs[q].op = "customer" /\ procs[q].pc = "commit"
          /\ procs[q].req \in {"transition", "approve_and_start"}
          /\ procs[q].to = "todo"
          /\ procs[p].op = "runner" /\ procs[p].role = "dev"
          /\ procs[p].pc = "preflight"
          /\ procs'[p] # procs[p]
          => /\ issue.kanban_column = "todo"
             /\ procs'[p].pc = "enter"]_vars

\* C32: a callback that performs a transition commits its chat message, its
\* transition row and the column update together: in no state has a callback
\* with a transition_to persisted its message without its row
C32_ChatAndRowTogether ==
    \A p \in Procs :
        procs[p].op = "callback" /\ procs[p].to # "none"
        => procs[p].posted = procs[p].wrote

\* C34: once the customer's dismissal is committed, no step of an agent
\* callback moves the issue out of dismissed, also when the callback's guard
\* read the column before the dismissal
C34_DismissedStaysDismissed ==
    [][\A p \in Procs :
          /\ issue.kanban_column = "dismissed"
          /\ procs[p].op = "callback"
          /\ procs'[p] # procs[p]
          => issue'.kanban_column = "dismissed"]_vars

\* the newest transition row is the tech lead's hand-back and the issue is
\* where that row put it: nothing has moved the issue since
HandedBack ==
    /\ transitions # <<>>
    /\ transitions[Len(transitions)].actor_type = "tech_lead"
    /\ transitions[Len(transitions)].to_col = "in_progress"
    /\ issue.kanban_column = "in_progress"

\* C35: once the tech lead has handed the issue back (moved it to in_progress
\* and sent a dev job), the dev runner that takes the job gets the lock,
\* aborts at its pre-flight check with the lock released and nothing spawned,
\* and no dev session is spawned while the hand-back is the issue's newest move
C35_HandBackJobAborts ==
    [][/\ \A p \in Procs :
             HandedBack /\ RunnerStart(p, "dev") => procs'[p].pc = "preflight"
       /\ \A p \in Procs :
             /\ HandedBack
             /\ procs[p].op = "runner" /\ procs[p].role = "dev"
             /\ procs[p].pc = "preflight"
             /\ procs'[p] # procs[p]
             => /\ procs'[p] = IdleProc
                /\ "dev" \notin locks'
                /\ UNCHANGED <<issue, transitions, chat, sessions>>
       /\ HandedBack => sessions'["dev"] <= sessions["dev"]]_vars

\* the columns of the issue row the two entry points are compared on
Left(i) ==
    [kanban_column |-> i.kanban_column, status |-> i.status,
     dev_fail_count |-> i.dev_fail_count]

\* C36: for an issue in ready_for_uat, whatever its dev_fail_count, the
\* transition request to todo and the uat-reject request leave the same
\* kanban_column, legacy status and dev_fail_count, and send the same jobs
C36_UatFailEntryPointsAgree ==
    issue.kanban_column = "ready_for_uat" =>
        LET a == TransitionOutcome(issue, queue, "todo")
            b == UatRejectOutcome(issue, queue)
        IN  /\ Left(ApplyWrites(issue, a.w)) = Left(ApplyWrites(issue, b.w))
            /\ a.queue = b.queue

\* C37: a customer request (transition, approve-and-start, uat-reject,
\* approve, status update) moves the issue into done only from ready_for_uat
C37_DoneOnlyFromUat ==
    [][\A p \in Procs :
          /\ procs[p].op = "customer"
          /\ procs'[p] = IdleProc
          /\ issue.kanban_column # "done"
          /\ issue'.kanban_column = "done"
          => issue.kanban_column = "ready_for_uat"]_vars

\* the sweep in slot p applies tier 2b or 2c to the issue it read, still in
\* the column it was read in: a stall revert
StallRevert(p) ==
    /\ procs[p].op = "sweep" /\ procs[p].pc = "apply"
    /\ procs'[p] = IdleProc
    /\ SweepTier(procs[p].from, procs[p].age) \in {"2b", "2c"}
    /\ issue.kanban_column = procs[p].from

\* C38: every stall revert, however many came before it, writes the system's
\* row in_progress -> todo or in_qa -> ready_for_qa, leaves dev_fail_count as
\* it was, enqueues no tech_lead job and sends the runner job of the column it
\* reverts to again
C38_RevertKeepsFailCount ==
    [][\A p \in Procs :
          StallRevert(p)
          => /\ transitions' # <<>>
             /\ transitions'[Len(transitions')] =
                   Row(issue.kanban_column, EntryCol(WorkRole(issue.kanban_column)),
                       "system")
             /\ issue'.kanban_column = EntryCol(WorkRole(issue.kanban_column))
             /\ issue'.dev_fail_count = issue.dev_fail_count
             /\ queue'["tech_lead"] = queue["tech_lead"]
             /\ queue'[WorkRole(issue.kanban_column)]
                   = queue[WorkRole(issue.kanban_column)] + 1]_vars

\* a QA session that has not called back: the sweep has reverted the issue to
\* ready_for_qa and sent the QA job again, dev_fail_count and the tech_lead
\* queue as before
C38_QARevertedUncounted ==
    /\ AllIdle
    /\ sessions["qa"] > 0
    /\ issue.kanban_column = "ready_for_qa"
    /\ transitions # <<>>
    /\ transitions[Len(transitions)] = Row("in_qa", "ready_for_qa", "system")
    /\ queue["qa"] = 1
    /\ queue["tech_lead"] = 0
    /\ issue.dev_fail_count = 0

\* the callback in slot p carries no transition_to and takes a step
NullCallbackStep(p) ==
    /\ procs[p].op = "callback" /\ procs[p].to = "none"
    /\ procs[p].pc \in {"guard", "chat", "release", "returned"}
    /\ procs'[p] # procs[p]

\* what every step of a callback without transition_to keeps and does, but for
\* the lock: nothing of the issue row, the transition log and the job queues
\* changes, and each delivery posts one message, the agent's own
NullCallbackFrame(p) ==
    /\ UNCHANGED <<issue, transitions, whole, queue>>
    /\ procs'[p].wrote = 0
    /\ procs[p].pc = "guard" => procs'[p].pc = "chat" /\ chat' = chat
    /\ procs[p].pc = "chat"
          => /\ procs'[p].pc = "release"
             /\ procs'[p].posted = procs[p].posted + 1
             /\ chat'[Len(chat')] = ChatMessage(procs[p].role, "agent_result")
    /\ procs[p].pc = "release" => procs'[p].pc = "returned" /\ chat' = chat
    /\ procs[p].pc = "returned" /\ procs'[p] = IdleProc
          => procs[p].posted = procs[p].n /\ chat' = chat

C33_KeyNeverHeldForEver ==
    /\ [][\A p \in Procs : \A role \in Roles :
             RunnerStart(p, role) /\ redis_up /\ role \notin locks
                => procs'[p].pc = "preflight" /\ role \in locks']_vars
    /\ \A role \in Roles : (role \in locks) ~> (role \notin locks)

\* the QA key is held and nothing is left to release it: no QA run is in
\* flight and no QA session is alive to call back
C33_KeyLeftBehind ==
    /\ "qa" \in locks
    /\ ~RunnerActive("qa")
    /\ sessions["qa"] = 0
    /\ \A p \in Procs : ~(procs[p].op = "callback" /\ procs[p].role = "qa")

====
